---- MODULE Spec2Model ----
(***************************************************************************)
(* Model of switchyard/lib/common.py: the Interface record with its       *)
(* coercing address setters, and LLNetBase, the registry of Interfaces    *)
(* with its lookups, its up/down callback slot and its abstract packet    *)
(* I/O methods.                                                           *)
(*                                                                         *)
(* Python values are records [kind, v]: kind is the run-time type         *)
(* ("none", "str", "mac" for EthAddr, "ip" for IPAddr, "raw" for anything *)
(* else) and v the payload as text.  switchyard.lib.address (EthAddr,     *)
(* IPAddr) is imported by common.py but is not part of it; its            *)
(* constructors and its equality are modelled from the specification.     *)
(***************************************************************************)
EXTENDS Integers, Sequences, FiniteSets

\* Number of Interface objects allocated in one behaviour.
MaxObjs == 3

VARIABLES
    klass,               \* abstract methods the backend class overrides
    node,                \* "unborn", "Active", "ShuttingDown", "Shutdown"
    devupdown_callback,  \* LLNetBase.devupdown_callback
    devinfo,             \* LLNetBase.devinfo: dict entries in insertion order
    objs,                \* heap of Interface objects, by object id
    nextId,              \* next object id to allocate
    res,                 \* the last call: operation, arguments, outcome
    cbCalls,             \* number of times the base invoked the callback
    lastCb,              \* argument of the last set_devupdown_callback call
    shutCalled,          \* shutdown() has been called on the node
    rd                   \* a concurrent reader's position inside a lookup

vars == <<klass, node, devupdown_callback, devinfo, objs, nextId, res,
          cbCalls, lastCb, shutCalled, rd>>

----------------------------------------------------------------------------
\* Python values

None == [kind |-> "none", v |-> ""]

Str(s) == [kind |-> "str", v |-> s]

Mac(s) == [kind |-> "mac", v |-> s]

Ip(s) == [kind |-> "ip", v |-> s]

Raw(s) == [kind |-> "raw", v |-> s]

\* EthAddr's parser: the strings it accepts and the canonical text of each.
MacCanon ==
    [s \in {"AA:AA:AA:AA:AA:AA", "aa:aa:aa:aa:aa:aa", "00:00:00:00:00:00"} |->
        IF s = "AA:AA:AA:AA:AA:AA" THEN "aa:aa:aa:aa:aa:aa" ELSE s]

\* IPAddr's parser: the strings it accepts and the canonical text of each.
IpCanon ==
    [s \in {"10.0.0.1", "10.0.0.2", "0.0.0.0", "255.255.255.0",
            "255.255.255.255"} |-> s]

Built(val) == [ok |-> TRUE, val |-> val]

AddressFormatError == [ok |-> FALSE, val |-> None]

\* EthAddr(x): from another EthAddr or from a string.
EthAddr(x) ==
    IF x.kind = "mac" THEN Built(x)
    ELSE IF x.kind = "str" /\ x.v \in DOMAIN MacCanon THEN Built(Mac(MacCanon[x.v]))
    ELSE AddressFormatError

\* IPAddr(x): from another IPAddr or from a string.
IPAddr(x) ==
    IF x.kind = "ip" THEN Built(x)
    ELSE IF x.kind = "str" /\ x.v \in DOMAIN IpCanon THEN Built(Ip(IpCanon[x.v]))
    ELSE AddressFormatError

\* x == y of Python, y an EthAddr or IPAddr: equal address values of the
\* same type; a value of any other type is not equal to an address.
AddrEq(x, y) == x.kind = y.kind /\ x.v = y.v

\* str(x)
to_str(x) == x.v

----------------------------------------------------------------------------
\* Interface

NoIface == [name |-> "", ethaddr |-> None, ipaddr |-> None, netmask |-> None]

Assigned(self) == [ok |-> TRUE, self |-> self]

Raised(self) == [ok |-> FALSE, self |-> self]

\* ethaddr_setter writing the name's slot as well.
ethaddr_setter_named(self, value) ==
    IF value.kind = "mac" THEN Assigned([self EXCEPT !.ethaddr = value, !.name = value.v])
    ELSE IF value.kind = "str" THEN
        (IF EthAddr(value).ok
            THEN Assigned([self EXCEPT !.ethaddr = EthAddr(value).val, !.name = value.v])
            ELSE Raised(self))
    ELSE IF value.kind = "none" THEN
        Assigned([self EXCEPT !.ethaddr = Str("00:00:00:00:00:00")])
    ELSE Assigned([self EXCEPT !.ethaddr = value])

ethaddr_setter(self, value) ==
    IF value.kind = "mac" THEN Assigned([self EXCEPT !.ethaddr = value])
    ELSE IF value.kind = "str" THEN
        (IF EthAddr(value).ok
            THEN Assigned([self EXCEPT !.ethaddr = EthAddr(value).val])
            ELSE Raised(self))
    ELSE IF value.kind = "none" THEN
        Assigned([self EXCEPT !.ethaddr = Str("00:00:00:00:00:00")])
    ELSE Assigned([self EXCEPT !.ethaddr = value])

ipaddr_setter(self, value) ==
    IF value.kind = "ip" THEN Assigned([self EXCEPT !.ipaddr = value])
    ELSE IF value.kind = "str" THEN
        (IF IPAddr(value).ok
            THEN Assigned([self EXCEPT !.ipaddr = IPAddr(value).val])
            ELSE Raised(self))
    ELSE IF value.kind = "none" THEN
        Assigned([self EXCEPT !.ipaddr = Str("0.0.0.0")])
    ELSE Assigned([self EXCEPT !.ipaddr = value])

\* netmask_setter falling back to the default on a string it cannot parse.
netmask_setter_lenient(self, value) ==
    IF value.kind = "ip" THEN Assigned([self EXCEPT !.netmask = value])
    ELSE IF value.kind = "str" THEN
        (IF IPAddr(value).ok
            THEN Assigned([self EXCEPT !.netmask = IPAddr(value).val])
            ELSE Assigned([self EXCEPT !.netmask = Str("255.255.255.255")]))
    ELSE IF value.kind = "none" THEN
        Assigned([self EXCEPT !.netmask = Str("255.255.255.255")])
    ELSE Assigned([self EXCEPT !.netmask = value])

netmask_setter(self, value) ==
    IF value.kind = "ip" THEN Assigned([self EXCEPT !.netmask = value])
    ELSE IF value.kind = "str" THEN
        (IF IPAddr(value).ok
            THEN Assigned([self EXCEPT !.netmask = IPAddr(value).val])
            ELSE Raised(self))
    ELSE IF value.kind = "none" THEN
        Assigned([self EXCEPT !.netmask = Str("255.255.255.255")])
    ELSE Assigned([self EXCEPT !.netmask = value])

\* Interface.__init__: the name, then the three setters in order; the first
\* one that raises ends the construction.
Interface_init(name, ethaddr, ipaddr, netmask) ==
    LET s0 == [NoIface EXCEPT !.name = name]
        s1 == ethaddr_setter(s0, ethaddr)
        s2 == ipaddr_setter(s1.self, ipaddr)
        s3 == netmask_setter(s2.self, netmask)
    IN  IF ~s1.ok THEN Raised(NoIface)
        ELSE IF ~s2.ok THEN Raised(NoIface)
        ELSE IF ~s3.ok THEN Raised(NoIface)
        ELSE Assigned(s3.self)

----------------------------------------------------------------------------
\* The dict behind LLNetBase.devinfo: entries in insertion order; a deleted
\* entry leaves a hole (id 0) that enumeration skips.

dict_has(d, k) == \E i \in 1..Len(d) : d[i].id # 0 /\ d[i].key = k

dict_get(d, k) == d[CHOOSE i \in 1..Len(d) : d[i].id # 0 /\ d[i].key = k].id

dict_set(d, k, id) ==
    IF dict_has(d, k)
        THEN [i \in 1..Len(d) |->
                IF d[i].id # 0 /\ d[i].key = k THEN [key |-> k, id |-> id] ELSE d[i]]
        ELSE Append(d, [key |-> k, id |-> id])

dict_del(d, k) ==
    [i \in 1..Len(d) |->
        IF d[i].id # 0 /\ d[i].key = k THEN [key |-> k, id |-> 0] ELSE d[i]]

dict_len(d) == Cardinality({i \in 1..Len(d) : d[i].id # 0})

RECURSIVE dict_values(_, _)
dict_values(d, i) ==
    IF i > Len(d) THEN <<>>
    ELSE IF d[i].id = 0 THEN dict_values(d, i + 1)
    ELSE <<d[i].id>> \o dict_values(d, i + 1)

----------------------------------------------------------------------------
\* LLNetBase

\* The abstract methods with name() left undecorated.
AbstractMethods_io == {"recv_packet", "send_packet", "shutdown"}

AbstractMethods == {"recv_packet", "send_packet", "shutdown", "name"}

Returned(id, n) == [status |-> "ok", obj |-> id, cmps |-> n]

Failed(exc, n) == [status |-> exc, obj |-> 0, cmps |-> n]

\* LLNetBase.interfaces: the values of devinfo.
interfaces(d) == dict_values(d, 1)

\* interface_by_name written as self.devinfo.get(name).
interface_by_name_get(d, name) ==
    IF dict_has(d, name) THEN Returned(dict_get(d, name), 0)
    ELSE Returned(0, 0)

interface_by_name(d, name) ==
    IF dict_has(d, name) THEN Returned(dict_get(d, name), 0)
    ELSE Failed("SwitchyException", 0)

\* for devname,iface in self.devinfo.items(): if iface.<field> == target:
\* return iface.  cmps counts the comparisons made.
RECURSIVE for_items(_, _, _, _, _)
for_items(d, o, field, target, i) ==
    IF i > Len(d) THEN Failed("SwitchyException", 0)
    ELSE IF d[i].id = 0 THEN for_items(d, o, field, target, i + 1)
    ELSE IF AddrEq(o[d[i].id][field], target) THEN Returned(d[i].id, 1)
    ELSE LET r == for_items(d, o, field, target, i + 1)
         IN  [r EXCEPT !.cmps = @ + 1]

\* interface_by_ipaddr coercing its argument only after the loop.
interface_by_ipaddr_late(d, o, ipaddr) ==
    LET r == for_items(d, o, "ipaddr", ipaddr, 1)
    IN  IF r.status = "ok" THEN r
        ELSE IF ~IPAddr(ipaddr).ok THEN Failed("AddressFormatError", r.cmps)
        ELSE for_items(d, o, "ipaddr", IPAddr(ipaddr).val, 1)

interface_by_ipaddr(d, o, ipaddr) ==
    IF ~IPAddr(ipaddr).ok THEN Failed("AddressFormatError", 0)
    ELSE for_items(d, o, "ipaddr", IPAddr(ipaddr).val, 1)

interface_by_macaddr(d, o, macaddr) ==
    IF ~EthAddr(macaddr).ok THEN Failed("AddressFormatError", 0)
    ELSE for_items(d, o, "ethaddr", EthAddr(macaddr).val, 1)

\* set_devupdown_callback keeping a callback already registered.
set_devupdown_callback_once(old, callback) == IF old = None THEN callback ELSE old

\* LLNetBase.set_devupdown_callback: the new content of the slot.
set_devupdown_callback(old, callback) == callback

\* The four abstract methods as a backend implements them: the state a call
\* leaves the node in, and its outcome.
shutdown(state) == IF state = "Active" THEN "ShuttingDown" ELSE state

recv_packet(state, queued) ==
    IF state # "Active" THEN "Shutdown"
    ELSE IF queued THEN "ok" ELSE "NoPackets"

\* send_packet that does not look at the node's state.
send_packet_unchecked(state, d, dev) ==
    IF dict_has(d, dev) THEN "ok" ELSE "SwitchyException"

send_packet(state, d, dev) ==
    IF state # "Active" THEN "Shutdown"
    ELSE IF dict_has(d, dev) THEN "ok" ELSE "SwitchyException"

----------------------------------------------------------------------------
\* Inputs

Names == {"eth0", "eth1"}

Callbacks == {None, Raw("cb1"), Raw("cb2")}

\* Arguments of the node's registrations and reconfigurations.
EthArgs == {None, Str("AA:AA:AA:AA:AA:AA"), Mac("aa:aa:aa:aa:aa:aa"), Str("zz")}

IpArgs == {None, Str("10.0.0.1"), Ip("10.0.0.1"), Str("10.0.0")}

MaskArgs == {None, Str("255.255.255.0"), Str("/24")}

\* Arguments of the lookups.
NameQueries == Names \cup {"ghost"}

IpQueries == {Str("10.0.0.1"), Ip("10.0.0.1"), Str("0.0.0.0"), Str("10.0.0.2"),
              Str("10.0.0")}

MacQueries == {Str("AA:AA:AA:AA:AA:AA"), Mac("aa:aa:aa:aa:aa:aa"),
               Str("00:00:00:00:00:00"), Str("zz")}

\* Arguments of the assignments to a free-standing Interface.
EthValues == EthArgs \cup {Str("00:00:00:00:00:00"), Str("10.0.0.1"),
                           Mac("bb:bb:bb:bb:bb:bb"), Ip("10.0.0.1"), Raw("42")}

IpValues == IpArgs \cup {Str("0.0.0.0"), Str("AA:AA:AA:AA:AA:AA"),
                         Ip("10.0.0.2"), Mac("aa:aa:aa:aa:aa:aa"), Raw("42")}

MaskValues == MaskArgs \cup {Str("255.255.255.255"), Ip("255.255.255.0"), Raw("42")}

----------------------------------------------------------------------------
\* State

NoCall == [op |-> "", args |-> <<>>, status |-> "", obj |-> 0, cmps |-> 0,
           list |-> <<>>]

Call(op, args, r, list) ==
    [op |-> op, args |-> args, status |-> r.status, obj |-> r.obj,
     cmps |-> r.cmps, list |-> list]

\* What a read in progress can have seen: the registry at each moment of it.
Seen(r, d, o) ==
    IF r.pc \in {"idle", "done"} THEN r
    ELSE [r EXCEPT !.snaps = @ \cup {[d |-> d, o |-> o]}]

Idle == [pc |-> "idle", op |-> "", arg |-> None, pos |-> 0, used |-> 0,
         status |-> "", obj |-> 0, list |-> <<>>, snaps |-> {}]

Init ==
    /\ klass \in SUBSET {"recv_packet", "send_packet", "shutdown", "name"}
    /\ node = "unborn"
    /\ devupdown_callback = None
    /\ devinfo = <<>>
    /\ objs = [i \in 1..MaxObjs |-> NoIface]
    /\ nextId = 1
    /\ res = NoCall
    /\ cbCalls = 0
    /\ lastCb = None
    /\ shutCalled = FALSE
    /\ rd = Idle

\* Instantiating the backend class: ABCMeta refuses a class that leaves an
\* abstract method unimplemented; otherwise LLNetBase.__init__ runs.
Construct ==
    /\ node = "unborn"
    /\ IF AbstractMethods \subseteq klass
          THEN /\ node' = "Active"
               /\ devupdown_callback' = None
               /\ devinfo' = <<>>
               /\ res' = Call("LLNetBase", <<>>, Returned(0, 0), <<>>)
          ELSE /\ res' = Call("LLNetBase", <<>>, Failed("TypeError", 0), <<>>)
               /\ UNCHANGED <<node, devupdown_callback, devinfo>>
    /\ UNCHANGED <<klass, objs, nextId, cbCalls, lastCb, shutCalled, rd>>

Call_set_devupdown_callback(callback) ==
    /\ node # "unborn"
    /\ devupdown_callback' = set_devupdown_callback(devupdown_callback, callback)
    /\ lastCb' = callback
    /\ res' = Call("set_devupdown_callback", <<callback>>, Returned(0, 0), <<>>)
    /\ UNCHANGED <<klass, node, devinfo, objs, nextId, cbCalls, shutCalled, rd>>

\* The node declares an interface: self.devinfo[name] = Interface(...).
Register(name, ethaddr, ipaddr, netmask) ==
    /\ node # "unborn"
    /\ nextId <= MaxObjs
    /\ LET r == Interface_init(name, ethaddr, ipaddr, netmask)
           args == <<Str(name), ethaddr, ipaddr, netmask>>
       IN  IF r.ok
              THEN /\ objs' = [i \in 1..MaxObjs |->
                                IF i = nextId THEN r.self
                                ELSE IF dict_has(devinfo, name) /\ i = dict_get(devinfo, name)
                                    THEN NoIface
                                ELSE objs[i]]
                   /\ devinfo' = dict_set(devinfo, name, nextId)
                   /\ nextId' = nextId + 1
                   /\ res' = Call("register", args, Returned(nextId, 0), <<>>)
              ELSE /\ res' = Call("register", args, Failed("AddressFormatError", 0), <<>>)
                   /\ UNCHANGED <<objs, devinfo, nextId>>
    /\ rd' = Seen(rd, devinfo', objs')
    /\ UNCHANGED <<klass, node, devupdown_callback, cbCalls, lastCb, shutCalled>>

\* The node drops an interface: del self.devinfo[name].
Remove(name) ==
    /\ node # "unborn"
    /\ dict_has(devinfo, name)
    /\ devinfo' = dict_del(devinfo, name)
    /\ objs' = [objs EXCEPT ![dict_get(devinfo, name)] = NoIface]
    /\ res' = Call("remove", <<Str(name)>>, Returned(0, 0), <<>>)
    /\ rd' = Seen(rd, devinfo', objs')
    /\ UNCHANGED <<klass, node, devupdown_callback, nextId, cbCalls, lastCb,
                   shutCalled>>

\* A call that reads the node and changes nothing but the caller's result.
Read(op, args, r, list) ==
    /\ node # "unborn"
    /\ res' = Call(op, args, r, list)
    /\ UNCHANGED <<klass, node, devupdown_callback, devinfo, objs, nextId,
                   cbCalls, lastCb, shutCalled, rd>>

Call_interfaces == Read("interfaces", <<>>, Returned(0, 0), interfaces(devinfo))

Call_ports == Read("ports", <<>>, Returned(0, 0), interfaces(devinfo))

Call_interface_by_name(name) ==
    Read("interface_by_name", <<Str(name)>>, interface_by_name(devinfo, name), <<>>)

Call_port_by_name(name) ==
    Read("port_by_name", <<Str(name)>>, interface_by_name(devinfo, name), <<>>)

Call_interface_by_ipaddr(a) ==
    Read("interface_by_ipaddr", <<a>>, interface_by_ipaddr(devinfo, objs, a), <<>>)

Call_port_by_ipaddr(a) ==
    Read("port_by_ipaddr", <<a>>, interface_by_ipaddr(devinfo, objs, a), <<>>)

Call_interface_by_macaddr(a) ==
    Read("interface_by_macaddr", <<a>>, interface_by_macaddr(devinfo, objs, a), <<>>)

Call_port_by_macaddr(a) ==
    Read("port_by_macaddr", <<a>>, interface_by_macaddr(devinfo, objs, a), <<>>)

Call_name == Read("name", <<>>, Returned(0, 0), <<>>)

Call_recv_packet(queued) ==
    Read("recv_packet", <<>>, Failed(recv_packet(node, queued), 0), <<>>)

Call_send_packet(dev) ==
    Read("send_packet", <<Str(dev)>>, Failed(send_packet(node, devinfo, dev), 0), <<>>)

Call_shutdown ==
    /\ node # "unborn"
    /\ node' = shutdown(node)
    /\ shutCalled' = TRUE
    /\ res' = Call("shutdown", <<>>, Returned(0, 0), <<>>)
    /\ UNCHANGED <<klass, devupdown_callback, devinfo, objs, nextId, cbCalls,
                   lastCb, rd>>

\* The backend has released its resources.
Released ==
    /\ node = "ShuttingDown"
    /\ node' = "Shutdown"
    /\ UNCHANGED <<klass, devupdown_callback, devinfo, objs, nextId, res,
                   cbCalls, lastCb, shutCalled, rd>>

\* An assignment to one address field of the Interface object id.
Assign(op, id, value, r) ==
    /\ objs[id] # NoIface
    /\ objs' = [objs EXCEPT ![id] = r.self]
    /\ res' = Call(op, <<value>>,
                   IF r.ok THEN Returned(id, 0)
                   ELSE [Failed("AddressFormatError", 0) EXCEPT !.obj = id], <<>>)
    /\ UNCHANGED <<klass, node, devupdown_callback, devinfo, nextId, cbCalls,
                   lastCb, shutCalled, rd>>

Set_ethaddr(id, value) == Assign("ethaddr", id, value, ethaddr_setter(objs[id], value))

Set_ipaddr(id, value) == Assign("ipaddr", id, value, ipaddr_setter(objs[id], value))

Set_netmask(id, value) == Assign("netmask", id, value, netmask_setter(objs[id], value))

\* A free-standing Interface is built and bound to the caller's variable; the
\* object bound before is dropped.
New_Interface(name, ethaddr, ipaddr, netmask) ==
    /\ nextId <= MaxObjs
    /\ LET r == Interface_init(name, ethaddr, ipaddr, netmask)
           args == <<Str(name), ethaddr, ipaddr, netmask>>
       IN  IF r.ok
              THEN /\ objs' = [i \in 1..MaxObjs |-> IF i = nextId THEN r.self ELSE NoIface]
                   /\ nextId' = nextId + 1
                   /\ res' = Call("Interface", args, Returned(nextId, 0), <<>>)
              ELSE /\ res' = Call("Interface", args, Failed("AddressFormatError", 0), <<>>)
                   /\ UNCHANGED <<objs, nextId>>
    /\ UNCHANGED <<klass, node, devupdown_callback, devinfo, cbCalls, lastCb,
                   shutCalled, rd>>

\* The interfaces a node declares.
Declared == {<<None, None, None>>,
             <<Str("AA:AA:AA:AA:AA:AA"), Str("10.0.0.1"), Str("255.255.255.0")>>,
             <<Mac("aa:aa:aa:aa:aa:aa"), Ip("10.0.0.1"), None>>,
             <<Str("zz"), None, None>>,
             <<None, Str("10.0.0"), None>>}

Lookups ==
    \/ Call_interfaces
    \/ Call_ports
    \/ \E n \in NameQueries : Call_interface_by_name(n)
    \/ \E n \in NameQueries : Call_port_by_name(n)
    \/ \E a \in IpQueries : Call_interface_by_ipaddr(a)
    \/ \E a \in IpQueries : Call_port_by_ipaddr(a)
    \/ \E a \in MacQueries : Call_interface_by_macaddr(a)
    \/ \E a \in MacQueries : Call_port_by_macaddr(a)

\* The registry and the Interfaces in it: declared, looked up, reconfigured.
Next ==
    \/ Construct
    \/ \E n \in Names, a \in Declared : Register(n, a[1], a[2], a[3])
    \/ \E n \in Names : Remove(n)
    \/ Lookups
    \/ \E id \in 1..MaxObjs, v \in EthArgs : Set_ethaddr(id, v)
    \/ \E id \in 1..MaxObjs, v \in IpArgs : Set_ipaddr(id, v)
    \/ \E id \in 1..MaxObjs, v \in MaskArgs : Set_netmask(id, v)

Spec == Init /\ [][Next]_vars

\* The node's life: construction, callback slot, registry, packet I/O, shutdown.
NextNode ==
    \/ Construct
    \/ \E cb \in Callbacks : Call_set_devupdown_callback(cb)
    \/ \E n \in Names : Register(n, None, Str("10.0.0.1"), None)
    \/ \E n \in Names : Remove(n)
    \/ Lookups
    \/ Call_name
    \/ \E q \in BOOLEAN : Call_recv_packet(q)
    \/ \E n \in NameQueries : Call_send_packet(n)
    \/ Call_shutdown
    \/ Released

SpecNode == Init /\ [][NextNode]_vars

\* The arguments a free-standing Interface is constructed with.
Constructed == Declared \cup
    {<<None, None, Str("/24")>>,
     <<Mac("bb:bb:bb:bb:bb:bb"), Ip("10.0.0.2"), Ip("255.255.255.0")>>,
     <<Raw("42"), Mac("aa:aa:aa:aa:aa:aa"), Raw("42")>>}

\* One free-standing Interface and the assignments to its fields.
InitIface == Init /\ klass = AbstractMethods

NextIface ==
    \/ \E n \in Names, a \in Constructed : New_Interface(n, a[1], a[2], a[3])
    \/ \E id \in 1..MaxObjs, v \in EthValues : Set_ethaddr(id, v)
    \/ \E id \in 1..MaxObjs, v \in IpValues : Set_ipaddr(id, v)
    \/ \E id \in 1..MaxObjs, v \in MaskValues : Set_netmask(id, v)

SpecIface == InitIface /\ [][NextIface]_vars

----------------------------------------------------------------------------
\* A second thread reads the registry while the node's own thread updates it.
\* A lookup is several steps of the interpreter, and the other thread can run
\* between any two of them.

Reading(op, arg, pc, used) ==
    [pc |-> pc, op |-> op, arg |-> arg, pos |-> 0, used |-> used, status |-> "",
     obj |-> 0, list |-> <<>>, snaps |-> {[d |-> devinfo, o |-> objs]}]

Done(r, status, id) == [r EXCEPT !.pc = "done", !.status = status, !.obj = id]

ReaderMoves(r) ==
    /\ node # "unborn"
    /\ rd' = r
    /\ UNCHANGED <<klass, node, devupdown_callback, devinfo, objs, nextId, res,
                   cbCalls, lastCb, shutCalled>>

\* interface_by_name is entered.
Reader_by_name(name) ==
    /\ rd.pc \in {"idle", "done"}
    /\ ReaderMoves(Reading("interface_by_name", Str(name), "contains", 0))

\* if name in self.devinfo:
Reader_contains ==
    /\ rd.pc = "contains"
    /\ ReaderMoves(IF dict_has(devinfo, rd.arg.v)
                      THEN [rd EXCEPT !.pc = "getitem"]
                      ELSE Done(rd, "SwitchyException", 0))

\* return self.devinfo[name]
Reader_getitem ==
    /\ rd.pc = "getitem"
    /\ ReaderMoves(IF dict_has(devinfo, rd.arg.v)
                      THEN Done(rd, "ok", dict_get(devinfo, rd.arg.v))
                      ELSE Done(rd, "KeyError", 0))

\* interface_by_ipaddr is entered: the argument is coerced and the iteration
\* over self.devinfo.items() begins; the iterator notes the dict's size.
Reader_by_ipaddr(a) ==
    /\ rd.pc \in {"idle", "done"}
    /\ ReaderMoves(IF IPAddr(a).ok
                      THEN Reading("interface_by_ipaddr", IPAddr(a).val, "next",
                                   dict_len(devinfo))
                      ELSE Done(Reading("interface_by_ipaddr", a, "next", 0),
                                "AddressFormatError", 0))

Reader_by_macaddr(a) ==
    /\ rd.pc \in {"idle", "done"}
    /\ ReaderMoves(IF EthAddr(a).ok
                      THEN Reading("interface_by_macaddr", EthAddr(a).val, "next",
                                   dict_len(devinfo))
                      ELSE Done(Reading("interface_by_macaddr", a, "next", 0),
                                "AddressFormatError", 0))

\* interfaces() hands out the live view self.devinfo.values(); the caller
\* begins to enumerate it.
Reader_interfaces ==
    /\ rd.pc \in {"idle", "done"}
    /\ ReaderMoves(Reading("interfaces", None, "next", dict_len(devinfo)))

\* One turn of the loop: the iterator fails if the dict's size is no longer the
\* one it noted, ends after the last entry, and otherwise yields the next entry.
Reader_next ==
    /\ rd.pc = "next"
    /\ LET later == {i \in 1..Len(devinfo) : i > rd.pos /\ devinfo[i].id # 0}
           i == CHOOSE j \in later : \A k \in later : j <= k
           field == IF rd.op = "interface_by_ipaddr" THEN "ipaddr" ELSE "ethaddr"
       IN  ReaderMoves(
             IF dict_len(devinfo) # rd.used THEN Done(rd, "RuntimeError", 0)
             ELSE IF later = {} THEN
                 (IF rd.op = "interfaces" THEN Done(rd, "ok", 0)
                  ELSE Done(rd, "SwitchyException", 0))
             ELSE IF rd.op = "interfaces" THEN
                 [rd EXCEPT !.pos = i, !.list = Append(@, devinfo[i].id)]
             ELSE IF AddrEq(objs[devinfo[i].id][field], rd.arg) THEN
                 Done(rd, "ok", devinfo[i].id)
             ELSE [rd EXCEPT !.pos = i])

NextConc ==
    \/ Construct
    \/ \E n \in Names : Register(n, None, Str("10.0.0.1"), None)
    \/ \E n \in Names : Register(n, Mac("aa:aa:aa:aa:aa:aa"), Ip("10.0.0.2"), None)
    \/ \E n \in Names : Remove(n)
    \/ \E n \in NameQueries : Reader_by_name(n)
    \/ Reader_contains
    \/ Reader_getitem
    \/ \E a \in {Str("10.0.0.1"), Ip("10.0.0.2"), Str("10.0.0")} : Reader_by_ipaddr(a)
    \/ \E a \in {Mac("aa:aa:aa:aa:aa:aa"), Str("zz")} : Reader_by_macaddr(a)
    \/ Reader_interfaces
    \/ Reader_next

SpecConc == InitIface /\ [][NextConc]_vars

----------------------------------------------------------------------------
\* Properties

LiveAt(i) == devinfo[i].id # 0

ValidIp(a) == a.kind = "ip" \/ (a.kind = "str" /\ a.v \in DOMAIN IpCanon)

ValidMac(a) == a.kind = "mac" \/ (a.kind = "str" /\ a.v \in DOMAIN MacCanon)

BadString(op, a) ==
    /\ a.kind = "str"
    /\ IF op \in {"ethaddr", "interface_by_macaddr", "port_by_macaddr"}
          THEN a.v \notin DOMAIN MacCanon
          ELSE a.v \notin DOMAIN IpCanon

\* C1: interface_by_name(n) and port_by_name(n) return exactly the Interface
\* registered under n, and fail with SwitchyException (UnknownDeviceError),
\* returning nothing, when none is registered under n.
C1_ByNameInverse ==
    res.op \in {"interface_by_name", "port_by_name"} =>
        LET n == res.args[1].v
            at == {i \in 1..Len(devinfo) : LiveAt(i) /\ devinfo[i].key = n}
        IN  IF at = {}
               THEN res.status = "SwitchyException" /\ res.obj = 0
               ELSE /\ res.status = "ok"
                    /\ \E i \in at : devinfo[i].id = res.obj
                    /\ objs[res.obj].name = n

C1_Witness ==
    /\ res.op = "port_by_name"
    /\ res.status = "ok"
    /\ Len(devinfo) = 2 /\ LiveAt(1) /\ LiveAt(2)
    /\ res.obj = devinfo[2].id

\* C2: interface_by_ip(a) / interface_by_mac(a), a valid, return the first
\* Interface in enumeration order whose address is a, whether that address came
\* from a string, a typed value or the None default, and fail with
\* SwitchyException when no registered Interface has that address.
C2_FirstWithAddress ==
    LET byIp == res.op \in {"interface_by_ipaddr", "port_by_ipaddr"}
        byMac == res.op \in {"interface_by_macaddr", "port_by_macaddr"}
        a == res.args[1]
        text == IF a.kind = "str"
                   THEN (IF byIp THEN IpCanon[a.v] ELSE MacCanon[a.v])
                   ELSE a.v
        field == IF byIp THEN "ipaddr" ELSE "ethaddr"
        at == {i \in 1..Len(devinfo) :
                  LiveAt(i) /\ to_str(objs[devinfo[i].id][field]) = text}
    IN  ((byIp /\ ValidIp(a)) \/ (byMac /\ ValidMac(a))) =>
            IF at = {}
               THEN res.status = "SwitchyException"
               ELSE /\ res.status = "ok"
                    /\ \E i \in at : /\ res.obj = devinfo[i].id
                                     /\ \A j \in at : i <= j

\* C3: a lookup by address given an invalid address string fails with
\* AddressFormatError before any registry entry is compared, and leaves the
\* registry as it was.
C3_BadAddressFirst ==
    [][(/\ res'.op \in {"interface_by_ipaddr", "port_by_ipaddr",
                        "interface_by_macaddr", "port_by_macaddr"}
        /\ BadString(res'.op, res'.args[1]))
       => (/\ res'.status = "AddressFormatError"
           /\ res'.cmps = 0
           /\ devinfo' = devinfo
           /\ objs' = objs)]_vars

C3_Witness ==
    /\ res.op = "interface_by_macaddr"
    /\ res.args[1] = Str("zz")
    /\ res.status = "AddressFormatError"
    /\ Len(devinfo) = 2 /\ LiveAt(1) /\ LiveAt(2)

\* C4: once shutdown() has been called, recv_packet and send_packet fail with
\* Shutdown (DeviceShutdown), shutdown() itself succeeds, and the node is never
\* Active again; the node leaves Active only through shutdown(), one way.
C4_ShutdownOneWay ==
    /\ [](shutCalled =>
            /\ node \in {"ShuttingDown", "Shutdown"}
            /\ res.op \in {"recv_packet", "send_packet"} => res.status = "Shutdown"
            /\ res.op = "shutdown" => res.status = "ok")
    /\ [][(node # "unborn" /\ node' # node)
          => (/\ shutCalled'
              /\ <<node, node'>> \in {<<"Active", "ShuttingDown">>,
                                      <<"ShuttingDown", "Shutdown">>})]_vars

C4_Witness ==
    /\ shutCalled
    /\ node = "Shutdown"
    /\ res.op = "send_packet"
    /\ res.args[1] = Str("eth0")
    /\ \E i \in 1..Len(devinfo) : LiveAt(i) /\ devinfo[i].key = "eth0"
    /\ res.status = "Shutdown"

DefaultOf(field) ==
    IF field = "ethaddr" THEN Mac("00:00:00:00:00:00")
    ELSE IF field = "ipaddr" THEN Ip("0.0.0.0")
    ELSE Ip("255.255.255.255")

\* C5: whenever None is given for ethaddr, ipaddr or netmask, at construction or
\* by assignment, the field then holds the default address value of its type:
\* an EthAddr 00:00:00:00:00:00, an IPAddr 0.0.0.0, an IPAddr 255.255.255.255.
C5_NoneGivesTypedDefault ==
    /\ \A f \in {"ethaddr", "ipaddr", "netmask"} :
          (res.op = f /\ res.args[1] = None) => objs[res.obj][f] = DefaultOf(f)
    /\ (res.op = "Interface" /\ res.status = "ok") =>
          /\ res.args[2] = None => objs[res.obj].ethaddr = DefaultOf("ethaddr")
          /\ res.args[3] = None => objs[res.obj].ipaddr = DefaultOf("ipaddr")
          /\ res.args[4] = None => objs[res.obj].netmask = DefaultOf("netmask")

FourOperations == {"recv_packet", "send_packet", "shutdown", "name"}

\* C7: a backend class that leaves one of the four abstract operations
\* unimplemented is refused at construction, so no node of it exists and no
\* operation is ever performed on one.
C7_AbstractRefused ==
    /\ (res.op = "LLNetBase" /\ klass # FourOperations) => res.status = "TypeError"
    /\ (node # "unborn" \/ res.op \notin {"", "LLNetBase"}) => klass = FourOperations

C7_Witness ==
    /\ klass = FourOperations \ {"name"}
    /\ res.op = "LLNetBase"
    /\ res.status = "TypeError"
    /\ node = "unborn"

\* C8: an Interface's name is the one given at construction and no assignment
\* to ethaddr, ipaddr or netmask, successful or failing, and no lookup changes it.
C8_NameFixed ==
    /\ []((res.op = "register" /\ res.status = "ok") =>
             objs[res.obj].name = res.args[1].v)
    /\ [][\A id \in 1..MaxObjs :
             (objs[id] # NoIface /\ objs'[id] # NoIface) =>
                 objs'[id].name = objs[id].name]_vars

C8_Witness ==
    /\ res.op = "ipaddr"
    /\ res.status = "AddressFormatError"
    /\ objs[res.obj].name = "eth1"
    /\ objs[res.obj].ethaddr = Mac("aa:aa:aa:aa:aa:aa")
    /\ objs[res.obj].netmask = Ip("255.255.255.0")

\* C9: the node has one callback slot: empty on a fresh node, holding the
\* argument of the last set_devupdown_callback call afterwards; setting it
\* leaves the registry alone, and the base never invokes the callback.
C9_CallbackSlot ==
    /\ [](/\ devupdown_callback = lastCb
          /\ cbCalls = 0
          /\ (res.op = "LLNetBase" /\ res.status = "ok") => devupdown_callback = None)
    /\ [][res'.op = "set_devupdown_callback" =>
             (devinfo' = devinfo /\ objs' = objs)]_vars

C9_Witness ==
    /\ devupdown_callback = Raw("cb2")
    /\ res.op = "set_devupdown_callback"
    /\ res.args[1] = Raw("cb2")
    /\ Len(devinfo) = 2 /\ LiveAt(1) /\ LiveAt(2)

\* C10: assigning to ethaddr, ipaddr or netmask a string that is no valid
\* address of the field's type fails with AddressFormatError and leaves the
\* Interface, that field included, as it was.
C10_BadStringRejected ==
    [][(/\ res'.op \in {"ethaddr", "ipaddr", "netmask"}
        /\ BadString(res'.op, res'.args[1]))
       => (res'.status = "AddressFormatError" /\ objs' = objs)]_vars

C10_Witness ==
    /\ res.op = "netmask"
    /\ res.args[1] = Str("/24")
    /\ res.status = "AddressFormatError"
    /\ objs[res.obj].netmask = Ip("255.255.255.0")
    /\ objs[res.obj].ethaddr = Mac("bb:bb:bb:bb:bb:bb")

\* The outcome of a read made in one piece on the registry d, o.
AtomicRead(op, arg, d, o) ==
    LET r == IF op = "interface_by_name" THEN interface_by_name(d, arg.v)
             ELSE IF op = "interface_by_ipaddr" THEN interface_by_ipaddr(d, o, arg)
             ELSE IF op = "interface_by_macaddr" THEN interface_by_macaddr(d, o, arg)
             ELSE Returned(0, 0)
    IN  [status |-> r.status, obj |-> r.obj,
         list |-> IF op = "interfaces" THEN interfaces(d) ELSE <<>>]

\* C6: a lookup or an enumeration running while the registry is updated ends
\* as it would have on the registry as it was before or after an update made
\* during it; it never fails because of the update.
C6_ReadsAtomic ==
    rd.pc = "done" =>
        \E s \in rd.snaps :
            [status |-> rd.status, obj |-> rd.obj, list |-> rd.list]
                = AtomicRead(rd.op, rd.arg, s.d, s.o)

====
